---- MODULE Spec2Model ----
(***************************************************************************)
(* A model of nomos' SchemaRegistry (src/nomos/utils/schema_loader.py):    *)
(* the JSON-schema compiler, the native module loader and the registry     *)
(* with its lookup.                                                        *)
(*                                                                         *)
(* A JSON object is a sequence of <<key, value>> pairs with distinct keys,  *)
(* in document order (the order                                            *)
(* of the Python dict json.load builds).  Python values are records with   *)
(* a field py.  Every step that can raise returns Ok(value) or             *)
(* Err(exception class, message).                                          *)
(***************************************************************************)
EXTENDS Naturals, Sequences, FiniteSets, TLC

VARIABLES
    schemas,   \* SchemaRegistry._schemas: schema name -> (model name -> model)
    disk,      \* the file system: path -> file content
    call,      \* the call in progress or last made, with its outcome
    before,    \* _schemas as it was when the last call was made
    frames     \* the frames of the calls made in threads: thread -> frame

vars == <<schemas, disk, call, before, frames>>

-----------------------------------------------------------------------------
(* Outcomes of a Python call *)

Ok(v) == [ok |-> TRUE, val |-> v]

Err(exc, msg) == [ok |-> FALSE, exc |-> exc, msg |-> msg]

\* the rest F of a function body after a step r: an exception raised by the
\* step propagates, a value is handed on.  The step is evaluated once.
Bind(r, F(_)) == CHOOSE y \in {IF x.ok THEN F(x.val) ELSE x : x \in {r}} : TRUE

-----------------------------------------------------------------------------
(* JSON values, as json.load returns them *)

\* Each kind of JSON value has a field of its own, so that two values of
\* different kinds differ by their field names.
JStr(s) == [str |-> s]

JNum(n) == [num |-> n]

JNull == [null |-> TRUE]

JList(seq) == [list |-> seq]

JObj(pairs) == [obj |-> pairs]

IsDict(x) == "obj" \in DOMAIN x

IsList(x) == "list" \in DOMAIN x

IsStr(x) == "str" \in DOMAIN x

IsNum(x) == "num" \in DOMAIN x

Keys(d) == {d.obj[i][1] : i \in 1..Len(d.obj)}

\* d[key], for a dict d that has the key
Item(d, key) == d.obj[CHOOSE i \in 1..Len(d.obj) : d.obj[i][1] = key][2]

\* `key in x`: a key test on a dict, an element test on a list, a substring
\* test on a string (the strings of this model are no longer than the keys
\* tested, so a substring is the whole string), TypeError on a number or null.
PyIn(key, x) ==
    CASE IsDict(x) -> Ok(key \in Keys(x))
      [] IsList(x) -> Ok(\E i \in 1..Len(x.list) : x.list[i] = JStr(key))
      [] IsStr(x)  -> Ok(x.str = key)
      [] OTHER     -> Err("TypeError", "argument is not iterable")

\* x.get(key, default): only a dict has the method
PyGet(x, key, default) ==
    IF IsDict(x)
    THEN Ok(IF key \in Keys(x) THEN Item(x, key) ELSE default)
    ELSE Err("AttributeError", "object has no attribute 'get'")

\* x.items(): only a dict has the method
PyItems(x) ==
    IF IsDict(x) THEN Ok(x.obj)
    ELSE Err("AttributeError", "object has no attribute 'items'")

\* bool(x) of a JSON value
Truthy(x) ==
    CASE IsStr(x)  -> x.str # ""
      [] IsNum(x)  -> x.num # 0
      [] IsList(x) -> Len(x.list) > 0
      [] IsDict(x) -> Len(x.obj) > 0
      [] OTHER     -> FALSE

-----------------------------------------------------------------------------
(* Python types and the dynamic type factory *)

PyType(n) == [py |-> n]

PyListOf(t) == [py |-> "List", item |-> t]

Ellipsis == [py |-> "Ellipsis"]

None == [py |-> "None"]

\* create_base_model(name, fields): the record type with the given fields,
\* in their order.  params is the sequence of <<field name, field info>>.
create_base_model(name, params) ==
    [py |-> "model", name |-> name,
     fields |-> [i \in 1..Len(params) |->
                    [name |-> params[i][1]] @@ params[i][2]]]

-----------------------------------------------------------------------------
(* The JSON-schema compiler *)

\* DefaultVal with the two defaults exchanged
DefaultValInverted(prop_name, required) ==
    Bind(PyIn(prop_name, required),
         LAMBDA listed : Ok(IF listed THEN None ELSE Ellipsis))

\* `... if prop_name in required else None`
DefaultVal(prop_name, required) ==
    Bind(PyIn(prop_name, required),
         LAMBDA listed : Ok(IF listed THEN Ellipsis ELSE None))

\* the field_info dict of one property
FieldInfo(field_type, default_val, description) ==
    IF Truthy(description)
    THEN [type |-> field_type, default |-> default_val,
          description |-> description]
    ELSE [type |-> field_type, default |-> default_val]

RECURSIVE _json_type_to_python(_)
RECURSIVE _json_schema_to_pydantic(_)
RECURSIVE CompileFields(_, _, _, _)

\* the loop of _json_schema_to_pydantic over items[i..], with the fields
\* collected so far
CompileFields(items, required, i, fields) ==
    IF i > Len(items) THEN Ok(fields)
    ELSE Bind(_json_type_to_python(items[i][2]), LAMBDA field_type :
         Bind(DefaultVal(items[i][1], required), LAMBDA default_val :
         Bind(PyGet(items[i][2], "description", JStr("")), LAMBDA description :
            CompileFields(items, required, i + 1,
                Append(fields,
                       <<items[i][1],
                         FieldInfo(field_type, default_val, description)>>)))))

\* schema.get raises unless schema is a dict, so that schema["properties"]
\* is only reached on a dict
_json_schema_to_pydantic(schema) ==
    Bind(PyIn("properties", schema), LAMBDA has :
        IF ~has THEN Ok(create_base_model("DynamicModel", <<>>))
        ELSE Bind(PyGet(schema, "required", JList(<<>>)), LAMBDA required :
             Bind(PyItems(Item(schema, "properties")), LAMBDA items :
             Bind(CompileFields(items, required, 1, <<>>), LAMBDA fields :
                Ok(create_base_model("DynamicModel", fields))))))

\* ArrayType without a look at `items`
ArrayTypeDropsItems(schema) == Ok(PyListOf(PyType("Any")))

\* the array branch of _json_type_to_python
ArrayType(schema) ==
    IF "items" \in Keys(schema)
    THEN Bind(_json_type_to_python(Item(schema, "items")),
              LAMBDA item_type : Ok(PyListOf(item_type)))
    ELSE Ok(PyListOf(PyType("Any")))

\* ObjectType without the compilation of the nested properties
ObjectTypeAsDict(schema) == Ok(PyType("Dict[str, Any]"))

\* the object branch of _json_type_to_python
ObjectType(schema) ==
    IF "properties" \in Keys(schema)
    THEN _json_schema_to_pydantic(schema)
    ELSE Ok(PyType("Dict[str, Any]"))

\* PrimitiveType with integer taken for number
PrimitiveTypeIntAsFloat(json_type) ==
    CASE json_type = JStr("string")  -> PyType("str")
      [] json_type = JStr("number")  -> PyType("float")
      [] json_type = JStr("integer") -> PyType("float")
      [] json_type = JStr("boolean") -> PyType("bool")
      [] OTHER                       -> PyType("Any")

\* the primitive branches of _json_type_to_python and its fallback
PrimitiveType(json_type) ==
    CASE json_type = JStr("string")  -> PyType("str")
      [] json_type = JStr("number")  -> PyType("float")
      [] json_type = JStr("integer") -> PyType("int")
      [] json_type = JStr("boolean") -> PyType("bool")
      [] OTHER                       -> PyType("Any")

_json_type_to_python(schema) ==
    Bind(PyGet(schema, "type", JNull), LAMBDA json_type :
        IF json_type = JStr("object") THEN ObjectType(schema)
        ELSE IF json_type = JStr("array") THEN ArrayType(schema)
        ELSE Ok(PrimitiveType(json_type)))

-----------------------------------------------------------------------------
(* Dictionaries of models: model name -> model *)

EmptyDict == [k \in {} |-> k]

\* d[k] = v, on a copy
Put(d, k, v) == (k :> v) @@ d

-----------------------------------------------------------------------------
(* _load_json_schema, from the parsed document on *)

\* PropModels without the models of the properties
PropModelsNone(items, i, models) == Ok(models)

RECURSIVE PropModels(_, _, _)

\* the loop over the root's properties: a model for every property that is
\* an object with properties of its own
PropModels(items, i, models) ==
    IF i > Len(items) THEN Ok(models)
    ELSE Bind(PyGet(items[i][2], "type", JNull), LAMBDA type :
            IF type = JStr("object") /\ "properties" \in Keys(items[i][2])
            THEN Bind(_json_schema_to_pydantic(items[i][2]), LAMBDA prop_model :
                    PropModels(items, i + 1, Put(models, items[i][1], prop_model)))
            ELSE PropModels(items, i + 1, models))

\* "Handle root level schema"
RootModels(name, schema_data) ==
    Bind(PyIn("properties", schema_data), LAMBDA has :
        IF ~has THEN Ok(EmptyDict)
        ELSE Bind(_json_schema_to_pydantic(schema_data), LAMBDA model :
                PropModels(Item(schema_data, "properties").obj, 1,
                           Put(EmptyDict, name, model))))

RECURSIVE DefModels(_, _, _)

\* the loop over the definitions
DefModels(items, i, models) ==
    IF i > Len(items) THEN Ok(models)
    ELSE Bind(_json_schema_to_pydantic(items[i][2]), LAMBDA model :
            DefModels(items, i + 1, Put(models, items[i][1], model)))

\* Definitions inside the block of the root's properties
DefinitionsOnlyWithRoot(schema_data, models) ==
    IF ~IsDict(schema_data) \/ "properties" \notin Keys(schema_data)
       \/ "definitions" \notin Keys(schema_data)
    THEN Ok(models)
    ELSE Bind(PyItems(Item(schema_data, "definitions")),
              LAMBDA items : DefModels(items, 1, models))

\* "Handle definitions"; schema_data["definitions"] of a list or a string
\* is a TypeError
Definitions(schema_data, models) ==
    Bind(PyIn("definitions", schema_data), LAMBDA has :
        IF ~has THEN Ok(models)
        ELSE IF ~IsDict(schema_data)
        THEN Err("TypeError", "indices must be integers")
        ELSE Bind(PyItems(Item(schema_data, "definitions")),
                  LAMBDA items : DefModels(items, 1, models)))

\* the models dict _load_json_schema builds from the parsed document
JsonModels(name, schema_data) ==
    Bind(RootModels(name, schema_data),
         LAMBDA models : Definitions(schema_data, models))

-----------------------------------------------------------------------------
(* Paths and files *)

\* one path component: its stem and its extension as written
Seg(stem, ext) == [stem |-> stem, ext |-> ext]

RelPath(segs) == [abs |-> FALSE, segs |-> segs]

AbsPath(segs) == [abs |-> TRUE, segs |-> segs]

\* the empty string: what `if base_path:` takes for no base path (as None)
NoPath == RelPath(<<>>)

\* os.path.join(base_path, file_path): an absolute file_path discards the base
PathJoin(base_path, file_path) ==
    IF file_path.abs THEN file_path
    ELSE [abs |-> base_path.abs, segs |-> base_path.segs \o file_path.segs]

\* str.lower() on the extensions of this model
Lower(ext) ==
    CASE ext = ".JSON" -> ".json"
      [] ext = ".Json" -> ".json"
      [] ext = ".PY"   -> ".py"
      [] OTHER         -> ext

\* os.path.splitext(file_path)[1]
SplitExt(file_path) ==
    IF file_path.segs = <<>> THEN "" ELSE file_path.segs[Len(file_path.segs)].ext

IsPrefix(s, t) == Len(s) < Len(t) /\ SubSeq(t, 1, Len(s)) = s

\* a directory of the file system d: a proper prefix of a file's path
IsDir(d, path) ==
    \E f \in DOMAIN d : f.abs = path.abs /\ IsPrefix(path.segs, f.segs)

\* os.path.exists(path)
Exists(d, path) == path \in DOMAIN d \/ IsDir(d, path)

\* file contents
JsonText(data) == [kind |-> "json", data |-> data]

Garbage == [kind |-> "garbage"]

PythonSource(attrs, raises) == [kind |-> "python", attrs |-> attrs, raises |-> raises]

\* open(file_path) and json.load(f)
JsonLoad(d, file_path) ==
    IF file_path \notin DOMAIN d
    THEN Err("IsADirectoryError", "Is a directory")
    ELSE IF d[file_path].kind = "json" THEN Ok(d[file_path].data)
    ELSE Err("JSONDecodeError", "Expecting value")

-----------------------------------------------------------------------------
(* The native module loader *)

\* pydantic's BaseModel itself
BaseModel == [py |-> "BaseModel"]

\* a class of the module that derives from BaseModel
ModelClass(name, fields) == [py |-> "model", name |-> name, fields |-> fields]

\* a module attribute that is no class (typing.List, a string, a function)
NotAType(what) == [py |-> "object", what |-> what]

\* a class that does not derive from BaseModel
OtherClass(name) == [py |-> "class", name |-> name]

\* IsHarvested without the test against BaseModel itself
IsHarvestedIncludingBase(attr) == attr.py \in {"model", "BaseModel"}

\* isinstance(attr, type) and issubclass(attr, BaseModel) and attr != BaseModel
IsHarvested(attr) ==
    /\ attr.py \in {"model", "BaseModel", "class"}
    /\ attr.py \in {"model", "BaseModel"}
    /\ attr # BaseModel

RECURSIVE Harvest(_, _, _)

\* the loop over dir(module): attrs is the sequence of <<attr_name, attr>>
Harvest(attrs, i, models) ==
    IF i > Len(attrs) THEN models
    ELSE Harvest(attrs, i + 1,
                 IF IsHarvested(attrs[i][2])
                 THEN Put(models, attrs[i][1], attrs[i][2])
                 ELSE models)

\* the models dict _load_python_schema builds
PythonModels(d, file_path) ==
    IF file_path \notin DOMAIN d
    THEN Err("IsADirectoryError", "Is a directory")
    ELSE IF d[file_path].kind # "python"
    THEN Err("SyntaxError", "invalid syntax")
    ELSE IF d[file_path].raises
    THEN Err("RuntimeError", "raised by the module")
    ELSE Ok(Harvest(d[file_path].attrs, 1, EmptyDict))

-----------------------------------------------------------------------------
(* The registry *)

\* Store with the earlier models of the name kept
StoreMerging(reg, name, models) ==
    [registry |-> Put(reg, name,
                      IF name \in DOMAIN reg THEN models @@ reg[name] ELSE models),
     out |-> Ok(models)]

\* Store without the assignment to _schemas
StoreForgets(reg, name, models) == [registry |-> reg, out |-> Ok(models)]

\* Store into a fresh _schemas, the other names dropped
StoreAlone(reg, name, models) ==
    [registry |-> Put(EmptyDict, name, models), out |-> Ok(models)]

\* Store that keeps an empty models dict out of _schemas
StoreUnlessEmpty(reg, name, models) ==
    [registry |-> IF models = EmptyDict THEN reg ELSE Put(reg, name, models),
     out |-> Ok(models)]

\* self._schemas[name] = models; return models
Store(reg, name, models) == [registry |-> Put(reg, name, models), out |-> Ok(models)]

\* a call that raises leaves the registry as it was
Raise(reg, err) == [registry |-> reg, out |-> err]

\* StoreOrRaise with the name bound to the empty models before they are built
StoreOrRaiseEmpty(reg, name, built) ==
    CHOOSE r \in {IF b.ok THEN Store(reg, name, b.val)
                  ELSE [registry |-> Put(reg, name, EmptyDict), out |-> b] :
                  b \in {built}} : TRUE

\* the end of a loader: the models are stored, unless building them raised
StoreOrRaise(reg, name, built) ==
    CHOOSE r \in {IF b.ok THEN Store(reg, name, b.val) ELSE Raise(reg, b) :
                  b \in {built}} : TRUE

_load_json_schema(reg, d, name, file_path) ==
    StoreOrRaise(reg, name,
        Bind(JsonLoad(d, file_path),
             LAMBDA schema_data : JsonModels(name, schema_data)))

\* spec_from_file_location gives None unless the path ends in a suffix the
\* import system knows, as written
_load_python_schema(reg, d, name, file_path) ==
    IF SplitExt(file_path) # ".py"
    THEN Raise(reg, Err("ImportError", "Could not load Python module"))
    ELSE StoreOrRaise(reg, name, PythonModels(d, file_path))

\* Resolve without the join
ResolveIgnoringBase(file_path, base_path) == file_path

\* `if base_path: file_path = os.path.join(base_path, file_path)`
Resolve(file_path, base_path) ==
    IF base_path # NoPath THEN PathJoin(base_path, file_path) ELSE file_path

\* load_schema with every file that is no module read as a document
load_schema_json_fallback(reg, d, name, file_path, base_path) ==
    LET path     == Resolve(file_path, base_path)
        file_ext == Lower(SplitExt(path))
    IN  IF ~Exists(d, path)
        THEN Raise(reg, Err("FileNotFoundError", "Schema file not found"))
        ELSE IF file_ext = ".py" THEN _load_python_schema(reg, d, name, path)
        ELSE _load_json_schema(reg, d, name, path)

\* load_schema: the new registry and what the call returns or raises
load_schema(reg, d, name, file_path, base_path) ==
    LET path     == Resolve(file_path, base_path)
        file_ext == Lower(SplitExt(path))
    IN  IF ~Exists(d, path)
        THEN Raise(reg, Err("FileNotFoundError", "Schema file not found"))
        ELSE IF file_ext = ".json" THEN _load_json_schema(reg, d, name, path)
        ELSE IF file_ext = ".py" THEN _load_python_schema(reg, d, name, path)
        ELSE Raise(reg, Err("ValueError", "Unsupported schema file type"))

\* get_model_registry with an entry made for a schema not loaded
get_model_setdefault(reg, schema_name, model_name) ==
    IF schema_name \in DOMAIN reg THEN reg ELSE Put(reg, schema_name, EmptyDict)

\* _schemas after get_model: its body reads self._schemas and assigns
\* nothing to it
get_model_registry(reg, schema_name, model_name) == reg

\* get_model without its second test: the dict lookup raises KeyError
get_model_unchecked(reg, schema_name, model_name) ==
    IF schema_name \notin DOMAIN reg
    THEN Err("ValueError", "Schema not found")
    ELSE IF model_name \notin DOMAIN reg[schema_name]
    THEN Err("KeyError", model_name)
    ELSE Ok(reg[schema_name][model_name])

\* get_model: what the call returns or raises
get_model(reg, schema_name, model_name) ==
    IF schema_name \notin DOMAIN reg
    THEN Err("ValueError", "Schema not found")
    ELSE IF model_name \notin DOMAIN reg[schema_name]
    THEN Err("ValueError", "Model not found in schema")
    ELSE Ok(reg[schema_name][model_name])

-----------------------------------------------------------------------------
(* Schema documents *)

MaxDepth == 2

Typed(t) == JObj(<< <<"type", JStr(t)>> >>)

\* {"type": "array", "items": s}
ArrayOf(s) == JObj(<< <<"type", JStr("array")>>, <<"items", s>> >>)

\* {"type": "object", "properties": {k: s}}
ObjectOf(k, s) ==
    JObj(<< <<"type", JStr("object")>>, <<"properties", JObj(<< <<k, s>> >>)>> >>)

\* {"type": "object", "properties": {k: s}, "required": [k]}
ObjectRequiring(k, s) ==
    JObj(<< <<"type", JStr("object")>>,
            <<"properties", JObj(<< <<k, s>> >>)>>,
            <<"required", JList(<<JStr(k)>>)>> >>)

\* the property schemas without nesting
TypeLeaves ==
    {Typed(t) : t \in {"string", "number", "integer", "boolean", "object",
                       "array", "null", "String"}}
    \cup {JObj(<<>>),
          JObj(<< <<"type", JList(<<JStr("string"), JStr("null")>>)>> >>),
          JObj(<< <<"type", JStr("integer")>>, <<"description", JStr("years")>> >>),
          JObj(<< <<"properties", JObj(<< <<"city", Typed("string")>> >>)>> >>),
          JObj(<< <<"type", JStr("string")>>, <<"items", Typed("integer")>> >>),
          JObj(<< <<"type", JStr("object")>>,
                  <<"properties", JObj(<< <<"city", Typed("string")>> >>)>>,
                  <<"required", JNum(1)>> >>),
          JStr("string"), JNum(5), JNull, JList(<<>>)}

RECURSIVE TypeSchemas(_)

\* the property schemas nested at most d deep
TypeSchemas(d) ==
    IF d = 0 THEN TypeLeaves
    ELSE LET inner == TypeSchemas(d - 1)
         IN  TypeLeaves
             \cup {ArrayOf(s) : s \in inner}
             \cup {ObjectOf("city", s) : s \in inner}
             \cup {ObjectRequiring("geo", s) : s \in inner}

\* the property schemas of the documents
DocLeaves == {Typed("integer"), JNum(5)}

RECURSIVE DocSchemas(_)

DocSchemas(d) ==
    IF d = 0 THEN DocLeaves
    ELSE LET inner == DocSchemas(d - 1)
         IN  DocLeaves
             \cup {ArrayOf(s) : s \in inner}
             \cup {ObjectOf("geo", s) : s \in inner}
             \cup {ObjectRequiring("city", s) : s \in inner}

\* the `properties` of the documents: none, one or two, in either order
DocProperties ==
    {<<>>}
    \cup {<< <<k, s>> >> : k \in {"address", "age"}, s \in DocSchemas(MaxDepth)}
    \cup {<< <<"age", l>>, <<"address", s>> >> :
            l \in DocLeaves, s \in DocSchemas(MaxDepth)}
    \cup {<< <<"address", s>>, <<"age", l>> >> :
            l \in DocLeaves, s \in DocSchemas(1)}

\* the `definitions` of the documents
DocDefinitions ==
    {<< <<"address", ObjectRequiring("zip", Typed("string"))>> >>,
     << <<"Geo", JNum(5)>> >>,
     << <<"Geo", Typed("string")>>, <<"Person", ObjectOf("lat", Typed("number"))>> >>}

\* a document from its optional entries (<<>> for an entry left out)
Document(properties, required, definitions) ==
    JObj(properties \o required \o definitions)

Documents ==
    {Document(p, r, d) :
        p \in {<<>>} \cup {<< <<"properties", JObj(ps)>> >> : ps \in DocProperties},
        r \in {<<>>, << <<"required", JList(<<JStr("age")>>)>> >>},
        d \in {<<>>} \cup {<< <<"definitions", JObj(ds)>> >> : ds \in DocDefinitions}}

-----------------------------------------------------------------------------
(* The files of the registry's runs *)

\* a field of a class written in Python
Field(name, type, default) == [name |-> name, type |-> type, default |-> default]

Literal(repr) == [py |-> "literal", repr |-> repr]

Activity ==
    ModelClass("Activity",
        << Field("name", PyType("str"), Ellipsis),
           Field("location", PyType("str"), Ellipsis),
           Field("details", PyType("str"), Literal("''")),
           Field("transportation", PyType("str"), Literal("''")),
           Field("source", PyType("str"), Literal("''")) >>)

DayPlan ==
    ModelClass("DayPlan",
        << Field("day_number", PyType("int"), Ellipsis),
           Field("activities", PyListOf(Activity), Ellipsis),
           Field("total_estimated_cost", PyType("float"), Literal("0.0")),
           Field("summary", PyType("str"), Literal("''")) >>)

Itinerary ==
    ModelClass("Itinerary",
        << Field("days", PyListOf(DayPlan), Ellipsis),
           Field("conclusion", PyType("str"), Ellipsis),
           Field("ending_statement", PyType("str"), Ellipsis) >>)

\* dir() of the cookbook's itinerary_schema.py, in its sorted order
ItineraryModule ==
    PythonSource(<< <<"Activity", Activity>>,
                    <<"BaseModel", BaseModel>>,
                    <<"DayPlan", DayPlan>>,
                    <<"Itinerary", Itinerary>>,
                    <<"List", NotAType("typing.List")>>,
                    <<"__name__", NotAType("str")>> >>, FALSE)

\* a second module: one model under the name of a JSON model, and an alias
AddressModule ==
    PythonSource(<< <<"BaseModel", BaseModel>>,
                    <<"Enum", OtherClass("Enum")>>,
                    <<"Place", ModelClass("address",
                                  <<Field("street", PyType("str"), Ellipsis)>>)>>,
                    <<"address", ModelClass("address",
                                  <<Field("street", PyType("str"), Ellipsis)>>)>> >>,
                 FALSE)

CrashingModule == PythonSource(<<>>, TRUE)

\* the document of the spec's scenario
PersonDocument ==
    Document(<< <<"properties",
                  JObj(<< <<"age", Typed("integer")>>,
                          <<"address", ObjectOf("city", Typed("string"))>> >>)>> >>,
             << <<"required", JList(<<JStr("age")>>)>> >>,
             <<>>)

\* the documents person.json is given in the registry's runs
FixtureDocuments ==
    {PersonDocument,
     JObj(<<>>),
     Document(<<>>, <<>>,
              << <<"definitions",
                   JObj(<< <<"Geo", ObjectOf("lat", Typed("number"))>> >>)>> >>),
     Document(<< <<"properties", JObj(<< <<"age", JNum(5)>> >>)>> >>, <<>>, <<>>),
     JList(<<>>),
     Document(<<>>, <<>>,
              << <<"definitions", JObj(<< <<"Geo", JStr("string")>> >>)>> >>)}

PersonJson == RelPath(<<Seg("person", ".json")>>)

SchemasDir == RelPath(<<Seg("schemas", "")>>)

File(name, ext) == RelPath(<<Seg(name, ext)>>)

InSchemas(name, ext) == RelPath(<<Seg("schemas", ""), Seg(name, ext)>>)

EtcDefs == AbsPath(<<Seg("etc", ""), Seg("defs", ".JSON")>>)

\* the file system of the registry's runs, given person.json's document
Fixture(doc) ==
    (PersonJson :> JsonText(doc))
    @@ (InSchemas("person", ".json") :>
            JsonText(Document(
                << <<"properties", JObj(<< <<"name", Typed("string")>> >>)>> >>,
                <<>>,
                << <<"definitions",
                     JObj(<< <<"address", ObjectOf("zip", Typed("string"))>> >>)>> >>)))
    @@ (EtcDefs :> JsonText(PersonDocument))
    @@ (InSchemas("itinerary_schema", ".py") :> ItineraryModule)
    @@ (File("address", ".py") :> AddressModule)
    @@ (File("crash", ".py") :> CrashingModule)
    @@ (File("legacy", ".PY") :> ItineraryModule)
    @@ (File("broken", ".json") :> Garbage)
    @@ (File("notes", ".txt") :> Garbage)

\* the file_path arguments of load_schema
FilePaths ==
    {PersonJson, File("itinerary_schema", ".py"), File("address", ".py"),
     File("crash", ".py"), File("broken", ".json"), File("notes", ".txt"),
     File("legacy", ".PY"), File("missing", ".json"), EtcDefs, SchemasDir}

\* the base_path arguments of load_schema
BasePaths == {NoPath, SchemasDir}

\* the schema names and the model names of the calls
SchemaNames == {"Person", "address"}

ModelNames ==
    {"Person", "address", "age", "Geo", "name", "Activity", "DayPlan",
     "Itinerary", "BaseModel", "Place", "List"}

\* the model names asked of a compiled document
DocModelNames == {"Person", "address", "age", "geo", "city", "Geo"}

-----------------------------------------------------------------------------
(* The calls *)

NoCall == [op |-> "none"]

\* no call is made in a thread
NoFrames == EmptyDict

\* registry.load_schema(name, file_path, base_path)
LoadSchema(name, file_path, base_path) ==
    \E r \in {load_schema(schemas, disk, name, file_path, base_path)} :
        /\ schemas' = r.registry
        /\ before' = schemas
        /\ call' = [op |-> "load_schema", name |-> name, file_path |-> file_path,
                    base_path |-> base_path, out |-> r.out]
        /\ UNCHANGED <<disk, frames>>

\* registry.get_model(schema_name, model_name)
GetModel(schema_name, model_name) ==
    /\ call' = [op |-> "get_model", schema_name |-> schema_name,
                model_name |-> model_name,
                out |-> get_model(schemas, schema_name, model_name)]
    /\ before' = schemas
    /\ schemas' = get_model_registry(schemas, schema_name, model_name)
    /\ UNCHANGED <<disk, frames>>

\* self._json_type_to_python(schema), on the schema the frame holds
JsonTypeToPython ==
    /\ call.op = "schema"
    /\ call' = [op |-> "_json_type_to_python", schema |-> call.schema,
                out |-> _json_type_to_python(call.schema)]
    /\ UNCHANGED <<schemas, disk, before, frames>>

\* SchemaRegistry(): an empty registry
Init ==
    /\ schemas = EmptyDict
    /\ before = EmptyDict
    /\ call = NoCall
    /\ frames = NoFrames
    /\ disk \in {Fixture(doc) : doc \in FixtureDocuments}

Next ==
    \/ \E name \in SchemaNames, file_path \in FilePaths, base_path \in BasePaths :
            LoadSchema(name, file_path, base_path)
    \/ \E schema_name \in SchemaNames, model_name \in ModelNames :
            GetModel(schema_name, model_name)

Spec == Init /\ [][Next]_vars

\* one document on disk, loaded under either name
DocPath == File("doc", ".json")

InitCompile ==
    /\ schemas = EmptyDict
    /\ before = EmptyDict
    /\ call = NoCall
    /\ frames = NoFrames
    /\ disk \in {DocPath :> JsonText(doc) : doc \in Documents}

NextCompile ==
    \/ \E name \in SchemaNames : LoadSchema(name, DocPath, NoPath)
    \/ \E schema_name \in SchemaNames, model_name \in DocModelNames :
            GetModel(schema_name, model_name)

SpecCompile == InitCompile /\ [][NextCompile]_vars

\* one property schema, resolved
InitTypes ==
    /\ schemas = EmptyDict
    /\ before = EmptyDict
    /\ disk = EmptyDict
    /\ frames = NoFrames
    /\ call \in {[op |-> "schema", schema |-> s] : s \in TypeSchemas(MaxDepth)}

NextTypes == JsonTypeToPython

SpecTypes == InitTypes /\ [][NextTypes]_vars

-----------------------------------------------------------------------------
(* Concurrent calls on the one registry, statement by statement.  A frame   *)
(* holds the call's arguments and locals and pc, the line of the statement  *)
(* the thread executes next (0 when the call has ended, with its outcome in *)
(* out).  A step executes one statement of load_schema, _load_json_schema,  *)
(* _load_python_schema or get_model; the compiler's methods read and write  *)
(* only their arguments and locals, so the statement that calls them is one *)
(* step.  The registry has no lock, and each statement that reads or writes *)
(* self._schemas does so once.                                              *)

\* the threads that call load_schema and the thread that calls get_model
Loaders == {"t1", "t2"}

Readers == {"t3"}

Threads == Loaders \cup Readers

Idle == [op |-> "none", pc |-> 0]

\* a document with definitions only
DefinitionsDocument ==
    Document(<<>>, <<>>,
             << <<"definitions",
                  JObj(<< <<"Geo", ObjectOf("lat", Typed("number"))>> >>)>> >>)

\* the load_schema calls of the threads: (name, file_path), no base path
ThreadLoads ==
    {<<"Person", PersonJson>>, <<"Person", EtcDefs>>,
     <<"Person", File("address", ".py")>>, <<"address", File("legacy", ".PY")>>}

\* the get_model calls of the threads: (schema_name, model_name)
ThreadLookups == {<<"Person", "Person">>, <<"Person", "Geo">>, <<"address", "Geo">>}

\* the frame of load_schema(name, file_path, base_path) at its first line
LoadFrame(name, file_path, base_path) ==
    [op |-> "load_schema", pc |-> 30, name |-> name, file_path |-> file_path,
     base_path |-> base_path, file_ext |-> "", spec |-> FALSE,
     schema_data |-> JNull, models |-> EmptyDict, items |-> <<>>, i |-> 0,
     model |-> None, out |-> None]

\* the frame of get_model(schema_name, model_name) at its first line
LookupFrame(schema_name, model_name) ==
    [op |-> "get_model", pc |-> 151, schema_name |-> schema_name,
     model_name |-> model_name, schema_models |-> EmptyDict, out |-> None]

At(t, pc) == frames[t].op # "none" /\ frames[t].pc = pc

\* the thread's frame becomes f; the registry is not written
Local(t, f) ==
    /\ frames' = [frames EXCEPT ![t] = f]
    /\ UNCHANGED <<schemas, disk, call, before>>

\* the call ends: it raises err, or returns the value of an Ok
Ended(f, out) == [f EXCEPT !.pc = 0, !.out = out]

\* the frame after a statement that may raise: r is the statement's outcome
Then(f, r, Rest(_)) ==
    CHOOSE g \in {IF x.ok THEN Rest(x.val) ELSE Ended(f, x) : x \in {r}} : TRUE

\* a thread calls load_schema
BeginLoad(t, name, file_path) ==
    /\ frames[t] = Idle
    /\ Local(t, LoadFrame(name, file_path, NoPath))

\* a thread calls get_model
BeginLookup(t, schema_name, model_name) ==
    /\ frames[t] = Idle
    /\ Local(t, LookupFrame(schema_name, model_name))

\* 30-31: if base_path: file_path = os.path.join(base_path, file_path)
L30_Join(t) ==
    /\ At(t, 30)
    /\ Local(t, [frames[t] EXCEPT
                    !.file_path = Resolve(frames[t].file_path, frames[t].base_path),
                    !.pc = 33])

\* 33-34: if not os.path.exists(file_path): raise FileNotFoundError
L33_Exists(t) ==
    /\ At(t, 33)
    /\ Local(t, IF Exists(disk, frames[t].file_path)
                THEN [frames[t] EXCEPT !.pc = 36]
                ELSE Ended(frames[t],
                           Err("FileNotFoundError", "Schema file not found")))

\* 36: file_ext = os.path.splitext(file_path)[1].lower()
L36_FileExt(t) ==
    /\ At(t, 36)
    /\ Local(t, [frames[t] EXCEPT
                    !.file_ext = Lower(SplitExt(frames[t].file_path)),
                    !.pc = 38])

\* 38-43: the call of the loader for the extension, or the ValueError
L38_Dispatch(t) ==
    /\ At(t, 38)
    /\ Local(t, IF frames[t].file_ext = ".json" THEN [frames[t] EXCEPT !.pc = 47]
                ELSE IF frames[t].file_ext = ".py" THEN [frames[t] EXCEPT !.pc = 125]
                ELSE Ended(frames[t],
                           Err("ValueError", "Unsupported schema file type")))

\* 47-48: with open(file_path) as f: schema_data = json.load(f)
L47_JsonLoad(t) ==
    /\ At(t, 47)
    /\ Local(t, Then(frames[t], JsonLoad(disk, frames[t].file_path),
                     LAMBDA data : [frames[t] EXCEPT !.schema_data = data, !.pc = 50]))

\* 50: models = {}
L50_Models(t) ==
    /\ At(t, 50)
    /\ Local(t, [frames[t] EXCEPT !.models = EmptyDict, !.pc = 53])

\* 53: if "properties" in schema_data
L53_IfProperties(t) ==
    /\ At(t, 53)
    /\ Local(t, Then(frames[t], PyIn("properties", frames[t].schema_data),
                     LAMBDA has : [frames[t] EXCEPT !.pc = IF has THEN 55 ELSE 65]))

\* 55: model = self._json_schema_to_pydantic(schema_data)
L55_RootModel(t) ==
    /\ At(t, 55)
    /\ Local(t, Then(frames[t], _json_schema_to_pydantic(frames[t].schema_data),
                     LAMBDA model : [frames[t] EXCEPT !.model = model, !.pc = 56]))

\* 56: models[name] = model
L56_SetRoot(t) ==
    /\ At(t, 56)
    /\ Local(t, [frames[t] EXCEPT
                    !.models = Put(frames[t].models, frames[t].name, frames[t].model),
                    !.i = 0, !.pc = 59])

\* a `for` statement over items: the iterator is made at the first visit
\* (i = 0, of the outcome made), then the next item is taken, or the loop
\* is left for the line after
ForNext(f, made, body, after) ==
    Then(f, IF f.i = 0 THEN made ELSE Ok(f.items),
         LAMBDA items :
            IF f.i + 1 > Len(items)
            THEN [f EXCEPT !.items = <<>>, !.i = 0, !.pc = after]
            ELSE [f EXCEPT !.items = items, !.i = f.i + 1, !.pc = body])

\* 59: for prop_name, prop_schema in schema_data.get("properties", {}).items()
L59_ForProperty(t) ==
    /\ At(t, 59)
    /\ Local(t, ForNext(frames[t],
                        Bind(PyGet(frames[t].schema_data, "properties", JObj(<<>>)),
                             LAMBDA properties : PyItems(properties)),
                        60, 65))

\* 60: if prop_schema.get("type") == "object" and "properties" in prop_schema
L60_IfObject(t) ==
    /\ At(t, 60)
    /\ LET prop_schema == frames[t].items[frames[t].i][2]
       IN  Local(t, Then(frames[t], PyGet(prop_schema, "type", JNull),
                         LAMBDA type :
                            [frames[t] EXCEPT !.pc =
                                IF type = JStr("object")
                                   /\ "properties" \in Keys(prop_schema)
                                THEN 61 ELSE 59]))

\* 61: prop_model = self._json_schema_to_pydantic(prop_schema)
L61_PropModel(t) ==
    /\ At(t, 61)
    /\ Local(t, Then(frames[t],
                     _json_schema_to_pydantic(frames[t].items[frames[t].i][2]),
                     LAMBDA model : [frames[t] EXCEPT !.model = model, !.pc = 62]))

\* 62: models[prop_name] = prop_model
L62_SetProperty(t) ==
    /\ At(t, 62)
    /\ Local(t, [frames[t] EXCEPT
                    !.models = Put(frames[t].models,
                                   frames[t].items[frames[t].i][1], frames[t].model),
                    !.pc = 59])

\* 65: if "definitions" in schema_data
L65_IfDefinitions(t) ==
    /\ At(t, 65)
    /\ Local(t, Then(frames[t], PyIn("definitions", frames[t].schema_data),
                     LAMBDA has : [frames[t] EXCEPT !.pc = IF has THEN 66 ELSE 70]))

\* 66: for def_name, def_schema in schema_data["definitions"].items()
L66_ForDefinition(t) ==
    /\ At(t, 66)
    /\ Local(t, ForNext(frames[t],
                        IF IsDict(frames[t].schema_data)
                        THEN PyItems(Item(frames[t].schema_data, "definitions"))
                        ELSE Err("TypeError", "indices must be integers"),
                        67, 70))

\* 67: model = self._json_schema_to_pydantic(def_schema)
L67_DefModel(t) ==
    /\ At(t, 67)
    /\ Local(t, Then(frames[t],
                     _json_schema_to_pydantic(frames[t].items[frames[t].i][2]),
                     LAMBDA model : [frames[t] EXCEPT !.model = model, !.pc = 68]))

\* 68: models[def_name] = model
L68_SetDefinition(t) ==
    /\ At(t, 68)
    /\ Local(t, [frames[t] EXCEPT
                    !.models = Put(frames[t].models,
                                   frames[t].items[frames[t].i][1], frames[t].model),
                    !.pc = 66])

\* Publish into the models the name has already
PublishUpdating(reg, name, models) ==
    Put(reg, name, IF name \in DOMAIN reg THEN models @@ reg[name] ELSE models)

\* self._schemas[name] = models: the one write to the registry
Publish(reg, name, models) == Put(reg, name, models)

\* 70: self._schemas[name] = models
L70_Publish(t) ==
    /\ At(t, 70)
    /\ schemas' = Publish(schemas, frames[t].name, frames[t].models)
    /\ frames' = [frames EXCEPT ![t].pc = 71]
    /\ UNCHANGED <<disk, call, before>>

\* 71: return models
L71_Return(t) ==
    /\ At(t, 71)
    /\ Local(t, Ended(frames[t], Ok(frames[t].models)))

\* 125: spec = importlib.util.spec_from_file_location(name, file_path)
L125_Spec(t) ==
    /\ At(t, 125)
    /\ Local(t, [frames[t] EXCEPT !.spec = (SplitExt(frames[t].file_path) = ".py"),
                                  !.pc = 126])

\* 126-127: if spec is None or spec.loader is None: raise ImportError
L126_IfNoSpec(t) ==
    /\ At(t, 126)
    /\ Local(t, IF frames[t].spec THEN [frames[t] EXCEPT !.pc = 129]
                ELSE Ended(frames[t],
                           Err("ImportError", "Could not load Python module")))

\* 129: module = importlib.util.module_from_spec(spec)
L129_Module(t) ==
    /\ At(t, 129)
    /\ Local(t, [frames[t] EXCEPT !.pc = 130])

\* the namespace of the module after its execution, dir() of it
ExecModule(d, file_path) ==
    IF file_path \notin DOMAIN d
    THEN Err("IsADirectoryError", "Is a directory")
    ELSE IF d[file_path].kind # "python"
    THEN Err("SyntaxError", "invalid syntax")
    ELSE IF d[file_path].raises
    THEN Err("RuntimeError", "raised by the module")
    ELSE Ok(d[file_path].attrs)

\* 130: spec.loader.exec_module(module)
L130_ExecModule(t) ==
    /\ At(t, 130)
    /\ Local(t, Then(frames[t], ExecModule(disk, frames[t].file_path),
                     LAMBDA attrs : [frames[t] EXCEPT !.items = attrs, !.pc = 132]))

\* 132: models = {}
L132_Models(t) ==
    /\ At(t, 132)
    /\ Local(t, [frames[t] EXCEPT !.models = EmptyDict, !.i = 0, !.pc = 135])

\* 135: for attr_name in dir(module)
L135_ForAttr(t) ==
    /\ At(t, 135)
    /\ Local(t, IF frames[t].i + 1 > Len(frames[t].items)
                THEN [frames[t] EXCEPT !.pc = 140]
                ELSE [frames[t] EXCEPT !.i = frames[t].i + 1, !.pc = 136])

\* 136: attr = getattr(module, attr_name)
L136_GetAttr(t) ==
    /\ At(t, 136)
    /\ Local(t, [frames[t] EXCEPT !.model = frames[t].items[frames[t].i][2],
                                  !.pc = 137])

\* 137: if isinstance(attr, type) and issubclass(attr, BaseModel) and ...
L137_IfModel(t) ==
    /\ At(t, 137)
    /\ Local(t, [frames[t] EXCEPT
                    !.pc = IF IsHarvested(frames[t].model) THEN 138 ELSE 135])

\* 138: models[attr_name] = attr
L138_SetAttr(t) ==
    /\ At(t, 138)
    /\ Local(t, [frames[t] EXCEPT
                    !.models = Put(frames[t].models,
                                   frames[t].items[frames[t].i][1], frames[t].model),
                    !.pc = 135])

\* 140: self._schemas[name] = models
L140_Publish(t) ==
    /\ At(t, 140)
    /\ schemas' = Publish(schemas, frames[t].name, frames[t].models)
    /\ frames' = [frames EXCEPT ![t].pc = 141]
    /\ UNCHANGED <<disk, call, before>>

\* 141: return models
L141_Return(t) ==
    /\ At(t, 141)
    /\ Local(t, Ended(frames[t], Ok(frames[t].models)))

\* 151-152: if schema_name not in self._schemas: raise ValueError
L151_IfNoSchema(t) ==
    /\ At(t, 151)
    /\ Local(t, IF frames[t].schema_name \in DOMAIN schemas
                THEN [frames[t] EXCEPT !.pc = 154]
                ELSE Ended(frames[t], Err("ValueError", "Schema not found")))

\* 154: schema_models = self._schemas[schema_name]; a missing key is a
\* KeyError
L154_SchemaModels(t) ==
    /\ At(t, 154)
    /\ Local(t, IF frames[t].schema_name \in DOMAIN schemas
                THEN [frames[t] EXCEPT
                        !.schema_models = schemas[frames[t].schema_name],
                        !.pc = 155]
                ELSE Ended(frames[t], Err("KeyError", frames[t].schema_name)))

\* 155-156: if model_name not in schema_models: raise ValueError
L155_IfNoModel(t) ==
    /\ At(t, 155)
    /\ Local(t, IF frames[t].model_name \in DOMAIN frames[t].schema_models
                THEN [frames[t] EXCEPT !.pc = 158]
                ELSE Ended(frames[t], Err("ValueError", "Model not found in schema")))

\* 158: return schema_models[model_name]
L158_Return(t) ==
    /\ At(t, 158)
    /\ Local(t, Ended(frames[t],
                      Ok(frames[t].schema_models[frames[t].model_name])))

\* an empty registry, the fixture's files, and no call made yet
InitThreads ==
    /\ schemas = EmptyDict
    /\ before = EmptyDict
    /\ call = NoCall
    /\ disk = Fixture(DefinitionsDocument)
    /\ frames = [t \in Threads |-> Idle]

NextThreads ==
    \/ \E t \in Loaders, c \in ThreadLoads : BeginLoad(t, c[1], c[2])
    \/ \E t \in Readers, c \in ThreadLookups : BeginLookup(t, c[1], c[2])
    \/ \E t \in Loaders :
          \/ L30_Join(t) \/ L33_Exists(t) \/ L36_FileExt(t) \/ L38_Dispatch(t)
          \/ L47_JsonLoad(t) \/ L50_Models(t) \/ L53_IfProperties(t)
          \/ L55_RootModel(t) \/ L56_SetRoot(t) \/ L59_ForProperty(t)
          \/ L60_IfObject(t) \/ L61_PropModel(t) \/ L62_SetProperty(t)
          \/ L65_IfDefinitions(t) \/ L66_ForDefinition(t) \/ L67_DefModel(t)
          \/ L68_SetDefinition(t) \/ L70_Publish(t) \/ L71_Return(t)
          \/ L125_Spec(t) \/ L126_IfNoSpec(t) \/ L129_Module(t)
          \/ L130_ExecModule(t) \/ L132_Models(t) \/ L135_ForAttr(t)
          \/ L136_GetAttr(t) \/ L137_IfModel(t) \/ L138_SetAttr(t)
          \/ L140_Publish(t) \/ L141_Return(t)
    \/ \E t \in Readers :
          \/ L151_IfNoSchema(t) \/ L154_SchemaModels(t) \/ L155_IfNoModel(t)
          \/ L158_Return(t)

SpecThreads == InitThreads /\ [][NextThreads]_vars

-----------------------------------------------------------------------------
(* Properties *)

Loaded == call.op = "load_schema" /\ call.out.ok

\* the path load_schema looks for
Wanted ==
    IF call.base_path = NoPath THEN call.file_path
    ELSE PathJoin(call.base_path, call.file_path)

ModelNotFound == Err("ValueError", "Model not found in schema")

SchemaNotFound == Err("ValueError", "Schema not found")

\* C1: after a successful load_schema(N, path) the registry holds under N
\* exactly the mapping the call returned: get_model(N, m) yields returned[m]
\* for every m of the mapping and fails for every other m.
C1_LoadStoresReturned ==
    Loaded =>
        \A m \in ModelNames \cup DOMAIN call.out.val :
            LET got == get_model(schemas, call.name, m)
            IN  IF m \in DOMAIN call.out.val
                THEN got = Ok(call.out.val[m])
                ELSE ~got.ok

C1_Witness ==
    /\ Loaded
    /\ DOMAIN call.out.val # {}
    /\ \E m \in ModelNames : m \notin DOMAIN call.out.val
    /\ call.name \in DOMAIN before
    /\ before[call.name] # call.out.val

C3_ReloadReplaces ==
    (Loaded /\ call.name \in DOMAIN before) =>
        /\ schemas[call.name] = call.out.val
        /\ \A m \in DOMAIN before[call.name] \ DOMAIN call.out.val :
                get_model(schemas, call.name, m) = ModelNotFound

\* a native module's models replaced by a JSON document's, losing a model
C3_Witness ==
    /\ Loaded
    /\ call.name \in DOMAIN before
    /\ Lower(SplitExt(Wanted)) = ".json"
    /\ \E m \in DOMAIN before[call.name] :
            /\ before[call.name][m].name # "DynamicModel"
            /\ m \notin DOMAIN call.out.val
    /\ DOMAIN call.out.val # {}

\* C4: load_schema on a path that does not exist, joined with base_path
\* when one is given, raises the file-not-found error and leaves the
\* registry as it was.
C4_MissingFile ==
    (call.op = "load_schema" /\ ~Exists(disk, Wanted)) =>
        /\ call.out = Err("FileNotFoundError", "Schema file not found")
        /\ schemas = before

\* the file exists without the base path, and not with it
C4_Witness ==
    /\ call.op = "load_schema"
    /\ ~Exists(disk, Wanted)
    /\ call.base_path # NoPath
    /\ call.file_path \in DOMAIN disk
    /\ call.name \notin DOMAIN schemas
    /\ schemas # EmptyDict

\* the document that was loaded
Doc == disk[DocPath].data

\* sequences of <<key, value>>: the value of an entry, <<>> without it
Entries(s, key) ==
    IF IsDict(s) /\ key \in Keys(s) /\ IsDict(Item(s, key))
    THEN Item(s, key).obj ELSE <<>>

Tag(s) == IF IsDict(s) /\ "type" \in Keys(s) THEN Item(s, "type") ELSE JNull

\* an object schema that declares properties
IsObjectWithProperties(s) ==
    IsDict(s) /\ Tag(s) = JStr("object") /\ "properties" \in Keys(s)

IsArrayWithItems(s) == IsDict(s) /\ Tag(s) = JStr("array") /\ "items" \in Keys(s)

\* name is listed in the schema's own `required`
Listed(s, name) ==
    /\ "required" \in Keys(s)
    /\ IsList(Item(s, "required"))
    /\ \E j \in 1..Len(Item(s, "required").list) :
            Item(s, "required").list[j] = JStr(name)

RECURSIVE FollowsPolicy(_, _)
RECURSIVE TypeFollowsPolicy(_, _)

\* the descriptor has the schema's properties as its fields, in order, each
\* mandatory when the schema's own `required` lists it and optional with
\* the null default otherwise, and so have the descriptors inside it
FollowsPolicy(s, model) ==
    LET props == Entries(s, "properties")
    IN  /\ model.py = "model"
        /\ Len(model.fields) = Len(props)
        /\ \A i \in 1..Len(props) :
              /\ model.fields[i].name = props[i][1]
              /\ model.fields[i].default =
                    (IF Listed(s, props[i][1]) THEN Ellipsis ELSE None)
              /\ TypeFollowsPolicy(props[i][2], model.fields[i].type)

TypeFollowsPolicy(s, type) ==
    IF IsObjectWithProperties(s) THEN FollowsPolicy(s, type)
    ELSE IF IsArrayWithItems(s)
    THEN type.py = "List" /\ TypeFollowsPolicy(Item(s, "items"), type.item)
    ELSE type.py # "model"

\* the schemas a model stored under the name m can have been compiled from
Sources(name, m) ==
    LET props == Entries(Doc, "properties")
        defs  == Entries(Doc, "definitions")
    IN  (IF m = name /\ "properties" \in Keys(Doc) THEN {Doc} ELSE {})
        \cup {props[i][2] : i \in {j \in 1..Len(props) : props[j][1] = m}}
        \cup {defs[i][2] : i \in {j \in 1..Len(defs) : defs[j][1] = m}}

\* C5: in every descriptor of a compiled document (root, nested object,
\* array item object, definition) a property is a mandatory field without
\* default when the object's own `required` lists it, and an optional field
\* with the null default otherwise, whatever its type.
C5_RequiredPolicy ==
    Loaded =>
        \A m \in DOMAIN schemas[call.name] :
            \E s \in Sources(call.name, m) : FollowsPolicy(s, schemas[call.name][m])

\* an optional root field whose object requires its own property, beside a
\* mandatory root field
C5_Witness ==
    /\ Loaded
    /\ "Person" \in DOMAIN schemas
    /\ "Person" \in DOMAIN schemas["Person"]
    /\ LET fields == schemas["Person"]["Person"].fields
       IN  /\ Len(fields) = 2
           /\ fields[1].name = "age"
           /\ fields[1].default = Ellipsis
           /\ fields[2].default = None
           /\ fields[2].type.py = "model"
           /\ fields[2].type.fields[1].default = Ellipsis
           /\ fields[2].type.fields[1].type.py = "List"

\* C6 as stated: for every document with top-level properties and every
\* root name N, get_model(N, N) after the load is the root descriptor.
C6_RootUnderItsName ==
    (Loaded /\ "properties" \in Keys(Doc)) =>
        get_model(schemas, call.name, call.name) = _json_schema_to_pydantic(Doc)

RECURSIVE NestedObjects(_)

\* the <<property name, schema>> of every object-typed property with
\* properties of its own, at any depth below the schema s
NestedObjects(s) ==
    LET props == Entries(s, "properties")
        below(ps) == IF IsObjectWithProperties(ps) \/ IsArrayWithItems(ps)
                     THEN NestedObjects(ps) ELSE {}
    IN  UNION {(IF IsObjectWithProperties(props[i][2])
                THEN {props[i]} ELSE {}) \cup below(props[i][2]) :
               i \in 1..Len(props)}
        \cup (IF IsArrayWithItems(s) THEN
                 (IF IsObjectWithProperties(Item(s, "items")) \/ IsArrayWithItems(Item(s, "items"))
                  THEN NestedObjects(Item(s, "items")) ELSE {})
              ELSE {})

\* C7 as stated: every nested object schema, at any depth, is also stored
\* under its property's name, identical to the parent's field type.
C7_EveryNestedObject ==
    (Loaded /\ "properties" \in Keys(Doc)) =>
        \A e \in NestedObjects(Doc) :
            get_model(schemas, call.name, e[1]) = _json_schema_to_pydantic(e[2])

\* the keys of the document's definitions
DefinitionKeys == {Entries(Doc, "definitions")[i][1] :
                      i \in 1..Len(Entries(Doc, "definitions"))}

\* C7, amended: every object-typed property of the root that declares
\* properties is also stored under the property's name; the stored model is
\* identical to the root's field type for the property, unless the
\* document's definitions have the same key, whose model is then the one
\* stored.
C7_RootNestedObject ==
    (Loaded /\ "properties" \in Keys(Doc)) =>
        \A i \in 1..Len(Entries(Doc, "properties")) :
            LET k  == Entries(Doc, "properties")[i][1]
                ps == Entries(Doc, "properties")[i][2]
            IN  IsObjectWithProperties(ps) =>
                  get_model(schemas, call.name, k) =
                    (IF k \in DefinitionKeys
                     THEN _json_schema_to_pydantic(Item(Item(Doc, "definitions"), k))
                     ELSE _json_type_to_python(ps))

\* a root property two objects deep, and no definition of its name
C7_Witness ==
    /\ Loaded
    /\ "properties" \in Keys(Doc)
    /\ "address" \notin DefinitionKeys
    /\ call.name = "Person"
    /\ \E e \in NestedObjects(Doc) : e[1] = "address"
    /\ \E e \in NestedObjects(Doc) : e[1] = "geo"
    /\ get_model(schemas, "Person", "address").ok
    /\ ~get_model(schemas, "Person", "geo").ok

\* C8: every key of the document's definitions is a model of the loaded
\* schema whose fields are the definition's declared properties, with or
\* without root properties.
C8_Definitions ==
    (Loaded /\ "definitions" \in Keys(Doc)) =>
        \A i \in 1..Len(Entries(Doc, "definitions")) :
            LET got == get_model(schemas, call.name, Entries(Doc, "definitions")[i][1])
            IN  got.ok /\ FollowsPolicy(Entries(Doc, "definitions")[i][2], got.val)

\* definitions in a document without properties
C8_Witness ==
    /\ Loaded
    /\ "definitions" \in Keys(Doc)
    /\ "properties" \notin Keys(Doc)
    /\ \E m \in DOMAIN schemas[call.name] :
            Len(schemas[call.name][m].fields) > 0

Resolved == call.op = "_json_type_to_python"

\* the type the spec's table gives a tag that is neither object nor array
ByTag(tag) ==
    IF tag = JStr("string") THEN PyType("str")
    ELSE IF tag = JStr("number") THEN PyType("float")
    ELSE IF tag = JStr("integer") THEN PyType("int")
    ELSE IF tag = JStr("boolean") THEN PyType("bool")
    ELSE PyType("Any")

\* what the mapping rules give the schema of the call, objects and other
\* tags; an array is C10's
MappedByTag ==
    LET s == call.schema
    IN  IF Tag(s) = JStr("object")
        THEN IF "properties" \in Keys(s)
             THEN call.out.ok => FollowsPolicy(s, call.out.val)
             ELSE call.out = Ok(PyType("Dict[str, Any]"))
        ELSE call.out = Ok(ByTag(Tag(s)))

\* C9 as stated: the type of a property schema follows from its tag, and
\* no input makes the mapping fail.
C9_NeverFails ==
    (Resolved /\ Tag(call.schema) # JStr("array")) =>
        call.out.ok /\ (IsDict(call.schema) => MappedByTag)

RECURSIVE Compiles(_)

\* a schema whose compilation meets nothing that raises: a JSON object whose
\* nested properties, when it is an object with properties, are a JSON
\* object of such schemas with an iterable `required`, and whose items,
\* when it is an array with items, are such a schema
Compiles(s) ==
    /\ IsDict(s)
    /\ IsObjectWithProperties(s) =>
          /\ IsDict(Item(s, "properties"))
          /\ \A i \in 1..Len(Entries(s, "properties")) :
                /\ Compiles(Entries(s, "properties")[i][2])
                /\ "required" \in Keys(s) => PyIn("", Item(s, "required")).ok
    /\ IsArrayWithItems(s) => Compiles(Item(s, "items"))

\* C9, amended: for a property schema that is a JSON object the type
\* follows from the tag alone for the tags other than array (string: str,
\* number: float, integer: int, boolean: bool, object without properties:
\* Dict[str, Any], any other or no tag: Any, object with properties: the
\* compiled descriptor); the mapping raises when the property schema is not
\* a JSON object or when the compilation of its nested properties raises,
\* and on no other input.
C9_ByTag ==
    (Resolved /\ Tag(call.schema) # JStr("array")) =>
        /\ call.out.ok <=> Compiles(call.schema)
        /\ IsDict(call.schema) => MappedByTag

\* an unknown tag resolved to Any
C9_Witness ==
    /\ Resolved
    /\ Tag(call.schema) = JStr("String")
    /\ call.out = Ok(PyType("Any"))

\* C10: an array schema resolves to the list of its resolved items type,
\* List[T] for items of the primitive type T, and to List[Any] without
\* items.
C10_Arrays ==
    (Resolved /\ Tag(call.schema) = JStr("array")) =>
        IF "items" \in Keys(call.schema)
        THEN LET items == Item(call.schema, "items")
                 inner == _json_type_to_python(items)
             IN  /\ call.out.ok <=> inner.ok
                 /\ call.out.ok =>
                       /\ call.out = Ok(PyListOf(inner.val))
                       /\ TypeFollowsPolicy(call.schema, call.out.val)
                       /\ (Tag(items) \in {JStr("string"), JStr("number"),
                                           JStr("integer"), JStr("boolean")}
                             => call.out = Ok(PyListOf(ByTag(Tag(items)))))
        ELSE call.out = Ok(PyListOf(PyType("Any")))

\* a list of lists of integers
C10_Witness ==
    /\ Resolved
    /\ call.out = Ok(PyListOf(PyListOf(PyType("int"))))

\* the models of the scenario's document
PersonAddress ==
    create_base_model("DynamicModel",
        << <<"city", [type |-> PyType("str"), default |-> None]>> >>)

PersonRoot ==
    create_base_model("DynamicModel",
        << <<"age", [type |-> PyType("int"), default |-> Ellipsis]>>,
           <<"address", [type |-> PersonAddress, default |-> None]>> >>)

\* C11: loading the document with the properties age (integer) and address
\* (object with the property city of type string) and required = [age]
\* under the root name Person yields exactly the two models Person (age:
\* integer, required; address: the nested object, optional) and address
\* (city: text, optional).
C11_PersonScenario ==
    (Loaded /\ call.name = "Person" /\ disk[Wanted] = JsonText(PersonDocument)) =>
        /\ call.out.val = ("Person" :> PersonRoot) @@ ("address" :> PersonAddress)
        /\ schemas["Person"] = call.out.val
        /\ get_model(schemas, "Person", "Person") = Ok(PersonRoot)
        /\ get_model(schemas, "Person", "address") = Ok(PersonAddress)

\* the scenario's document loaded from person.json into an empty registry
C11_Witness ==
    /\ Loaded
    /\ call.name = "Person"
    /\ Wanted = PersonJson
    /\ disk[Wanted] = JsonText(PersonDocument)
    /\ before = EmptyDict
    /\ DOMAIN schemas["Person"] = {"Person", "address"}

\* C12: registry entries are never evicted: in every step of every run of
\* load_schema and get_model calls the set of loaded schema names does not
\* shrink, and a successful load_schema under a name M leaves the mapping
\* stored under every other name N exactly as it was (a mapping changes
\* only by a successful load under its own name).
C12_NeverEvicted ==
    [][/\ DOMAIN schemas \subseteq DOMAIN schemas'
       /\ \A n \in DOMAIN schemas :
             /\ (call'.op = "load_schema" /\ call'.out.ok /\ call'.name # n)
                   => schemas'[n] = schemas[n]
             /\ schemas'[n] # schemas[n]
                   => (call'.op = "load_schema" /\ call'.out.ok /\ call'.name = n)]_vars

\* a load under address beside the models loaded under Person
C12_Witness ==
    /\ Loaded
    /\ call.name = "address"
    /\ "address" \notin DOMAIN before
    /\ "Person" \in DOMAIN before
    /\ before["Person"] # EmptyDict
    /\ schemas["Person"] = before["Person"]
    /\ DOMAIN schemas = {"Person", "address"}

\* C13: get_model leaves the whole registry unchanged in every outcome
\* (hit, unknown model, unknown schema): a lookup of a schema not loaded
\* creates no entry for it, and the same lookup made again fails, or
\* succeeds, the same way.
C13_GetModelReadsOnly ==
    call.op = "get_model" =>
        /\ schemas = before
        /\ (call.out = SchemaNotFound) => call.schema_name \notin DOMAIN schemas
        /\ get_model(schemas, call.schema_name, call.model_name) = call.out

\* a lookup of a schema not loaded, beside a loaded schema
C13_Witness ==
    /\ call.op = "get_model"
    /\ call.out = SchemaNotFound
    /\ schemas # EmptyDict
    /\ call.schema_name \notin DOMAIN schemas

\* the file load_schema looks for exists and has, in lower case, neither the
\* extension .json nor the extension .py
UnsupportedFile ==
    /\ call.op = "load_schema"
    /\ Exists(disk, Wanted)
    /\ Lower(SplitExt(Wanted)) \notin {".json", ".py"}

RECURSIVE WellFormedSchema(_)

\* a schema that is a JSON object, with a JSON object of such schemas for
\* its properties and such a schema for its items
WellFormedSchema(s) ==
    /\ IsDict(s)
    /\ "properties" \in Keys(s) =>
          /\ IsDict(Item(s, "properties"))
          /\ \A i \in 1..Len(Entries(s, "properties")) :
                WellFormedSchema(Entries(s, "properties")[i][2])
    /\ "items" \in Keys(s) => WellFormedSchema(Item(s, "items"))

\* a document that is such a schema, with a JSON object of such schemas for
\* its definitions
WellFormedDocument(doc) ==
    /\ WellFormedSchema(doc)
    /\ "definitions" \in Keys(doc) =>
          /\ IsDict(Item(doc, "definitions"))
          /\ \A i \in 1..Len(Entries(doc, "definitions")) :
                WellFormedSchema(Entries(doc, "definitions")[i][2])

\* load_schema was given an existing .json file that does not parse, or
\* parses to a document that is not well formed
MalformedJson ==
    /\ call.op = "load_schema"
    /\ Wanted \in DOMAIN disk
    /\ Lower(SplitExt(Wanted)) = ".json"
    /\ \/ disk[Wanted].kind # "json"
       \/ ~WellFormedDocument(disk[Wanted].data)

\* C15 as stated: load_schema on an existing .json file whose content does
\* not parse, or parses to a structurally invalid document, fails; it never
\* succeeds with a partial or empty mapping.
C15_MalformedFails == MalformedJson => ~call.out.ok

\* a module was loaded; its dir() is ModuleAttrs
ModuleLoaded == Loaded /\ Lower(SplitExt(Wanted)) = ".py"

ModuleAttrs == disk[Wanted].attrs

\* the places in dir() of the symbols that are record types
RecordSymbols == {i \in 1..Len(ModuleAttrs) : ModuleAttrs[i][2].py = "model"}

\* C16 as stated: the mapping of a native module has exactly one entry for
\* every top-level symbol that is a record type, none for the base record
\* type and none for any other symbol, and each entry is keyed by the
\* declared name of its type.
C16_KeyedByDeclaredName ==
    ModuleLoaded =>
        /\ DOMAIN call.out.val = {ModuleAttrs[i][1] : i \in RecordSymbols}
        /\ \A m \in DOMAIN call.out.val :
              call.out.val[m].py = "model" /\ call.out.val[m].name = m

\* C16, amended: the mapping of a native module has exactly one entry for
\* every top-level symbol whose value is a record type, keyed by the
\* symbol's name in the module and holding that type, none for BaseModel
\* and none for any other symbol; the key is the type's declared name
\* unless the module binds the type under another name.  The cookbook's
\* itinerary module gives exactly Activity, DayPlan and Itinerary.
C16_KeyedBySymbol ==
    ModuleLoaded =>
        /\ DOMAIN call.out.val = {ModuleAttrs[i][1] : i \in RecordSymbols}
        /\ \A i \in RecordSymbols : call.out.val[ModuleAttrs[i][1]] = ModuleAttrs[i][2]
        /\ \A m \in DOMAIN call.out.val : call.out.val[m] # BaseModel
        /\ schemas[call.name] = call.out.val
        /\ disk[Wanted] = ItineraryModule =>
              call.out.val = ("Activity" :> Activity) @@ ("DayPlan" :> DayPlan)
                             @@ ("Itinerary" :> Itinerary)

\* the itinerary module loaded from the schemas directory
C16_Witness ==
    /\ ModuleLoaded
    /\ Wanted = InSchemas("itinerary_schema", ".py")
    /\ DOMAIN schemas[call.name] = {"Activity", "DayPlan", "Itinerary"}

\* C17 as stated: in every namespace of the registry no two distinct models
\* carry the same type name.
C17_UniqueTypeNames ==
    \A n \in DOMAIN schemas :
        \A m1, m2 \in DOMAIN schemas[n] :
            schemas[n][m1] # schemas[n][m2]
                => schemas[n][m1].name # schemas[n][m2].name

\* load_schema raised after it found the file
FailedAfterExists ==
    /\ call.op = "load_schema"
    /\ ~call.out.ok
    /\ Exists(disk, Wanted)

\* C18: a load_schema(N, ...) that fails after the file-existence check
\* (unsupported extension, unparsable document, an error while compiling,
\* a module that cannot be loaded or that raises) leaves the whole registry
\* as it was: the models stored under N before stay retrievable, and an
\* absent N stays absent.
C18_FailedLoadKeepsRegistry ==
    FailedAfterExists =>
        /\ schemas = before
        /\ call.out.exc # "FileNotFoundError"
        /\ \A m \in ModelNames :
              get_model(schemas, call.name, m) = get_model(before, call.name, m)

\* a document that fails in compilation, loaded under a name that has models
C18_Witness ==
    /\ FailedAfterExists
    /\ call.out.exc = "AttributeError"
    /\ call.name \in DOMAIN schemas
    /\ schemas[call.name] # EmptyDict
    /\ \E n \in SchemaNames : n \notin DOMAIN schemas

\* the whole mappings the threads' loads under a name give, each as one
\* load_schema alone gives it
CompleteResults(name) ==
    {r.out.val :
        r \in {x \in {load_schema(EmptyDict, disk, c[1], c[2], NoPath) :
                         c \in {e \in ThreadLoads : e[1] = name}} : x.out.ok}}

\* a load_schema that has returned
Returned(t) ==
    frames[t].op = "load_schema" /\ frames[t].pc = 0 /\ frames[t].out.ok

\* C19: under every interleaving, statement by statement, of concurrent
\* load_schema and get_model calls a namespace is published in one step:
\* the mapping under a name is always the whole result of one load, the
\* mapping get_model reads and the outcome it gives are those of the whole
\* result of one load, and after two concurrent loads under one name the
\* mapping under the name is the result of one of the two, never a mixture.
C19_PublishedWhole ==
    /\ \A n \in DOMAIN schemas : schemas[n] \in CompleteResults(n)
    /\ \A t \in Readers :
          frames[t].op = "get_model" =>
            /\ frames[t].pc \in {155, 158} =>
                  frames[t].schema_models \in CompleteResults(frames[t].schema_name)
            /\ frames[t].pc = 0 =>
                  \/ frames[t].out = SchemaNotFound
                  \/ \E whole \in CompleteResults(frames[t].schema_name) :
                        frames[t].out =
                            get_model((frames[t].schema_name :> whole),
                                      frames[t].schema_name, frames[t].model_name)
    /\ \A t1, t2 \in Loaders :
          (t1 # t2 /\ Returned(t1) /\ Returned(t2)
              /\ frames[t1].name = frames[t2].name)
          => schemas[frames[t1].name] \in {frames[t1].out.val, frames[t2].out.val}

\* two loads under one name have returned different mappings, and a
\* get_model that ran beside them returned a model of the mapping that was
\* replaced
C19_Witness ==
    /\ Returned("t1")
    /\ Returned("t2")
    /\ frames["t1"].name = frames["t2"].name
    /\ frames["t1"].out.val # frames["t2"].out.val
    /\ frames["t3"].op = "get_model"
    /\ frames["t3"].pc = 0
    /\ frames["t3"].out.ok
    /\ frames["t3"].schema_models # schemas[frames["t3"].schema_name]

\* the names of the root's object properties that declare properties
RootObjectProperties ==
    {Entries(Doc, "properties")[i][1] :
        i \in {j \in 1..Len(Entries(Doc, "properties")) :
                  IsObjectWithProperties(Entries(Doc, "properties")[j][2])}}

\* C20: the model names a JSON load stores under N are exactly N itself
\* when the document has top-level properties, every root-level property of
\* type object that declares properties, and every key of definitions
\* (objects nested deeper or inside array items add no name); the namespace
\* is stored even when this set is empty, and get_model(N, m) then fails
\* with the unknown-model error, not the unknown-schema error.
C20_StoredNames ==
    Loaded =>
        /\ call.name \in DOMAIN schemas
        /\ DOMAIN schemas[call.name] =
              (IF "properties" \in Keys(Doc) THEN {call.name} ELSE {})
              \cup RootObjectProperties
              \cup DefinitionKeys
        /\ \A m \in DocModelNames \ DOMAIN schemas[call.name] :
              get_model(schemas, call.name, m) = ModelNotFound

\* a document with neither properties nor definitions, loaded into an
\* empty registry
C20_Witness ==
    /\ Loaded
    /\ "properties" \notin Keys(Doc)
    /\ "definitions" \notin Keys(Doc)
    /\ before = EmptyDict
    /\ schemas = (call.name :> EmptyDict)

====
